---- MODULE Spec2Model ----
(***************************************************************************)
(* Model of registration-bot/main.py: the schema-driven registration loop  *)
(* run_registration, its helpers is_valid / explain_field /                *)
(* summarize_answers and the LLM gateway llm.                              *)
(*                                                                         *)
(* Strings are sequences of one-character strings, so that str.strip,      *)
(* str.lower and re.match are computed character by character.             *)
(***************************************************************************)
EXTENDS Integers, Sequences, FiniteSets, TLC

VARIABLES schema, pc, idx, answers, dialog_ctx, line, out, emitted,
          explainCalls, summarizeCalls, lastSvc, scen,
          api_key, summarized, validated, helpReads

\* api_key is the environment's OPENAI_API_KEY; summarized holds the data
\* given to summarize_answers; validated tells whether the last line read
\* reached is_valid; helpReads counts the "help" lines read.
vars == <<schema, pc, idx, answers, dialog_ctx, line, out, emitted,
          explainCalls, summarizeCalls, lastSvc, scen,
          api_key, summarized, validated, helpReads>>

\* ---------------------------------------------------------------- bounds
\* Cap on the number of explain_field calls followed in one session.
MaxExplain == 2

\* ------------------------------------------------------------ characters
UpperCase == <<"A","B","C","D","E","F","G","H","I","J","K","L","M",
               "N","O","P","Q","R","S","T","U","V","W","X","Y","Z">>
LowerCase == <<"a","b","c","d","e","f","g","h","i","j","k","l","m",
               "n","o","p","q","r","s","t","u","v","w","x","y","z">>
Digits == {"0","1","2","3","4","5","6","7","8","9"}
Whitespace == {" ", "\t", "\n", "\r", "\f"}

Range(s) == {s[i] : i \in 1..Len(s)}
Letters == Range(UpperCase) \cup Range(LowerCase)

\* str.lower on one character
lowerChar(c) ==
    IF \E i \in 1..26 : UpperCase[i] = c
    THEN LowerCase[CHOOSE i \in 1..26 : UpperCase[i] = c]
    ELSE c

\* str.lower()
lowerIdentity(s) == s
lower(s) == [i \in 1..Len(s) |-> lowerChar(s[i])]

\* str.strip(): drop leading and trailing whitespace
RECURSIVE lstrip(_)
lstrip(s) == IF s # <<>> /\ Head(s) \in Whitespace THEN lstrip(Tail(s)) ELSE s
RECURSIVE rstrip(_)
rstrip(s) == IF s # <<>> /\ s[Len(s)] \in Whitespace
             THEN rstrip(SubSeq(s, 1, Len(s) - 1)) ELSE s
stripNothing(s) == s
strip(s) == rstrip(lstrip(s))

\* --------------------------------------------------------------- regexes
\* A validation rule "^[class]{min,max}$"; max = NoMax is an open "{min,}".
NoMax == -1
InClass(c, cls) ==
    CASE cls = "A-Za-z-"    -> c \in Letters \cup {"-"}
      [] cls = "A-Za-z\\s-" -> c \in Letters \cup Whitespace \cup {"-"}
      [] cls = "A-Za-z0-9"  -> c \in Letters \cup Digits
      [] cls = "."          -> c # "\n"
      [] cls = "\\d"        -> c \in Digits

\* re.match(pattern, value) is not None: n characters of the class from
\* position 0, then "$", which matches at the end of the string or just
\* before a final newline.
re_match_prefix(pattern, value) ==
    \E n \in 0..Len(value) :
        /\ n >= pattern.min
        /\ (pattern.max = NoMax \/ n <= pattern.max)
        /\ \A i \in 1..n : InClass(value[i], pattern.cls)
re_match(pattern, value) ==
    \E n \in 0..Len(value) :
        /\ n >= pattern.min
        /\ (pattern.max = NoMax \/ n <= pattern.max)
        /\ \A i \in 1..n : InClass(value[i], pattern.cls)
        /\ \/ n = Len(value)
           \/ n = Len(value) - 1 /\ value[Len(value)] = "\n"

NoPattern == [cls |-> "", min |-> 0, max |-> NoMax]

is_valid_always(value, pattern) == TRUE
is_valid_inverted(value, pattern) ==
    IF pattern = NoPattern THEN TRUE ELSE ~re_match(pattern, value)
is_valid(value, pattern) ==
    IF pattern = NoPattern THEN TRUE ELSE re_match(pattern, value)

\* ---------------------------------------------------------------- schema
SCHEMA == <<
    [key |-> "first_name", question |-> "Please enter your First Name (as in your ID):",
     required |-> TRUE, validate |-> [cls |-> "A-Za-z-", min |-> 1, max |-> NoMax]],
    [key |-> "last_name", question |-> "Please enter your Last Name (as in your ID):",
     required |-> TRUE, validate |-> [cls |-> "A-Za-z-", min |-> 2, max |-> NoMax]],
    [key |-> "country", question |-> "Country of tax residency:",
     required |-> TRUE, validate |-> [cls |-> "A-Za-z\\s-", min |-> 2, max |-> NoMax]],
    [key |-> "passport_number", question |-> "Passport number (no spaces):",
     required |-> TRUE, validate |-> [cls |-> "A-Za-z0-9", min |-> 6, max |-> 20]],
    [key |-> "source_of_funds", question |-> "Source of funds (salary/business/investments/etc.):",
     required |-> TRUE, validate |-> [cls |-> ".", min |-> 3, max |-> NoMax]],
    [key |-> "investment_experience_years", question |-> "Investment experience in years (integer, 0 if none):",
     required |-> FALSE, validate |-> [cls |-> "\\d", min |-> 1, max |-> 2]] >>

\* The two-field schema of the end-to-end scenario: first_name, last_name.
ScenarioSchema == SubSeq(SCHEMA, 1, 2)

\* ------------------------------------------------------------------ dict
\* A Python dict: keys in insertion order and the value of each key.
EmptyDict == [keys |-> <<>>, vals |-> [k \in {} |-> <<>>]]

DictSetFresh(d, k, v) == [keys |-> <<k>>, vals |-> (k :> v)]
DictSetNonEmpty(d, k, v) ==
    IF v = <<>> THEN d
    ELSE IF k \in Range(d.keys)
    THEN [keys |-> d.keys, vals |-> [d.vals EXCEPT ![k] = v]]
    ELSE [keys |-> Append(d.keys, k), vals |-> (k :> v) @@ d.vals]
\* answers[key] = value: a new key is appended, an existing one keeps its place.
DictSet(d, k, v) ==
    IF k \in Range(d.keys)
    THEN [keys |-> d.keys, vals |-> [d.vals EXCEPT ![k] = v]]
    ELSE [keys |-> Append(d.keys, k), vals |-> (k :> v) @@ d.vals]

RECURSIVE NonEmptyItems(_, _)
NonEmptyItems(d, i) ==
    IF i > Len(d.keys) THEN <<>>
    ELSE (IF d.vals[d.keys[i]] # <<>>
          THEN << <<d.keys[i], d.vals[d.keys[i]]>> >> ELSE <<>>)
         \o NonEmptyItems(d, i + 1)

\* json.dumps(answers, ...): the items of the dict, in its iteration order.
json_dumps_skip_empty(d) == NonEmptyItems(d, 1)
json_dumps(d) == [i \in 1..Len(d.keys) |-> <<d.keys[i], d.vals[d.keys[i]]>>]

\* --------------------------------------------------------------- gateway
\* What client.chat.completions.create does with one request: it raises, or
\* returns a message whose content is None or a text.
SvcResponses ==
    { [raises |-> TRUE,  none |-> FALSE, content |-> <<>>],
      [raises |-> FALSE, none |-> TRUE,  content |-> <<>>],
      [raises |-> FALSE, none |-> FALSE, content |-> <<" ", "O", "k", ".", "\n">>] }

LLMError == <<"(LLM error: ", "e", ")">>

\* llm(): the stripped content, or the error placeholder; raised says whether
\* an exception leaves the function.
llm_propagates(resp) ==
    IF resp.raises THEN [raised |-> TRUE, value |-> <<>>]
    ELSE [raised |-> FALSE,
          value |-> strip(IF resp.none THEN <<>> ELSE resp.content)]
llm(resp) ==
    IF resp.raises THEN [raised |-> FALSE, value |-> LLMError]
    ELSE [raised |-> FALSE,
          value |-> strip(IF resp.none THEN <<>> ELSE resp.content)]

explain_field(field, resp) == llm(resp)
summarize_answers(ans, resp) == llm(resp)

\* ----------------------------------------------------------------- input
quit == <<"q","u","i","t">>
help == <<"h","e","l","p">>
yes  == <<"y","e","s">>

\* The lines a user types at a field prompt in the model.
FieldInputs ==
    { <<>>,
      <<" ", "\t">>,
      quit,
      <<" ","Q","u","i","t"," ">>,
      help,
      <<" ","H","e","L","P"," ">>,
      <<"y">>,
      <<"O","'","B","r","i","e","n">>,
      <<"B","r","i","e","n">>,
      <<"L","e","e">>,
      <<"A","B","1","2","3","4","5">>,
      <<"A","B","1","2","3","4","5","6","7","8","9","0",
        "1","2","3","4","5","6","7","8","9">>,
      <<" ","1","2">> }

\* The lines a user types at the confirmation prompt in the model.
ConfirmInputs ==
    { yes,
      <<" ","Y","E","S"," ">>,
      <<"y">>,
      <<"n","o">>,
      <<>>,
      help,
      quit,
      <<"L","e","e">> }

Inputs == FieldInputs \cup ConfirmInputs

\* The end-to-end scenario's input sequence.
Scenario == << <<"O","'","B","r","i","e","n">>, <<"B","r","i","e","n">>,
               help, <<"L","e","e">>, yes >>

\* scen counts the scenario inputs typed so far while the session's whole
\* input is a prefix of the scenario, and is -1 once it is not.
ScenNext(inp) ==
    IF scen >= 0 /\ scen < Len(Scenario) /\ inp = Scenario[scen + 1]
    THEN scen + 1 ELSE -1

\* ------------------------------------------------------- run_registration
Msg(m, t) == [msg |-> m, text |-> t]

IsQuitExact(user_input) == user_input = quit
IsQuit(user_input) == lower(user_input) = quit
IsHelp(user_input) == lower(user_input) = help
RequiredEmptyNever(field, user_input) == FALSE
RequiredEmpty(field, user_input) == field.required /\ user_input = <<>>
InvalidFormatNoGuard(field, user_input) ==
    ~is_valid(user_input, field.validate)
InvalidFormatNever(field, user_input) == FALSE
InvalidFormat(field, user_input) ==
    user_input # <<>> /\ ~is_valid(user_input, field.validate)
IsYesNotNo(confirm) == confirm # <<"n","o">>
IsYesPrefix(confirm) == confirm # <<>> /\ Head(confirm) = "y"
IsYes(confirm) == confirm = yes

\* os.getenv("OPENAI_API_KEY"): None, the empty string or a key.
ApiKeys ==
    { [none |-> TRUE,  value |-> <<>>],
      [none |-> FALSE, value |-> <<>>],
      [none |-> FALSE, value |-> <<"s","k","-","1">>] }

\* line 13: not OPENAI_API_KEY
KeyMissingNoneOnly(k) == k.none
KeyMissing(k) == k.none \/ k.value = <<>>

\* line 167: "user_input and ...": is_valid is evaluated only for a
\* non-empty input
ValidatorInvoked(field, user_input) == user_input # <<>>

Init0 ==
    /\ pc = "start"
    /\ api_key \in ApiKeys
    /\ summarized = <<>>
    /\ validated = FALSE
    /\ helpReads = 0
    /\ idx = 1
    /\ answers = EmptyDict
    /\ dialog_ctx = << [role |-> "system", content |-> <<"SYSTEM_PROMPT">>] >>
    /\ line = <<>>
    /\ out = Msg("", <<>>)
    /\ emitted = <<>>
    /\ explainCalls = 0
    /\ summarizeCalls = 0
    /\ lastSvc = "none"
    /\ scen = 0

Init == schema = SCHEMA /\ Init0
InitScenario == schema = ScenarioSchema /\ Init0

\* lines 10-18 and 189-190, 139-142: the module is loaded; without a key it
\* raises RuntimeError, otherwise run_registration starts and greets
Startup ==
    /\ pc = "start"
    /\ IF KeyMissing(api_key)
       THEN pc' = "fatal" /\ out' = Msg("RuntimeError: OPENAI_API_KEY is not set.", <<>>)
       ELSE pc' = "input" /\ out' = Msg("Hello! I am RegBot.", <<>>)
    /\ UNCHANGED <<schema, api_key, idx, answers, dialog_ctx, line, emitted,
                   explainCalls, summarizeCalls, lastSvc, scen, summarized,
                   validated, helpReads>>

\* line 151: one line is read and stripped
Read(inp) ==
    /\ line' = inp
    /\ scen' = ScenNext(inp)

\* lines 153-155
ReadQuit(inp) ==
    /\ pc = "input"
    /\ IsQuit(strip(inp))
    /\ Read(inp)
    /\ out' = Msg("Exit. Your data is not saved.", <<>>)
    /\ pc' = "cancelled"
    /\ validated' = FALSE
    /\ UNCHANGED <<schema, api_key, idx, answers, dialog_ctx, emitted, explainCalls,
                   summarizeCalls, lastSvc, summarized, helpReads>>

\* lines 157-158: explain_field is called
ReadHelp(inp) ==
    /\ pc = "input"
    /\ ~IsQuit(strip(inp))
    /\ IsHelp(strip(inp))
    /\ explainCalls < MaxExplain
    /\ Read(inp)
    /\ explainCalls' = explainCalls + 1
    /\ pc' = "explain"
    /\ helpReads' = helpReads + 1
    /\ validated' = FALSE
    /\ UNCHANGED <<schema, api_key, idx, answers, dialog_ctx, out, emitted,
                   summarizeCalls, lastSvc, summarized>>

ExplainReturnRetry(resp) ==
    /\ pc = "explain"
    /\ IF resp.raises /\ explainCalls < MaxExplain
       THEN /\ pc' = "explain" /\ out' = out
            /\ explainCalls' = explainCalls + 1
       ELSE /\ pc' = "input" /\ out' = Msg("", llm(resp).value)
            /\ explainCalls' = explainCalls
    /\ lastSvc' = IF resp.raises THEN "error" ELSE "ok"
    /\ UNCHANGED <<schema, api_key, idx, answers, dialog_ctx, line, emitted,
                   summarizeCalls, scen, summarized, validated, helpReads>>

\* lines 158-159: explain_field returns, its text is printed, the loop continues
ExplainReturn(resp) ==
    /\ pc = "explain"
    /\ LET r == explain_field(schema[idx], resp) IN
         IF r.raised
         THEN pc' = "crashed" /\ out' = Msg("Traceback", <<>>)
         ELSE pc' = "input" /\ out' = Msg("", r.value)
    /\ lastSvc' = IF resp.raises THEN "error" ELSE "ok"
    /\ UNCHANGED <<schema, api_key, idx, answers, dialog_ctx, line, emitted,
                   explainCalls, summarizeCalls, scen, summarized, validated,
                   helpReads>>

\* lines 161-164
ReadEmptyRequired(inp) ==
    /\ pc = "input"
    /\ LET user_input == strip(inp) IN
         /\ ~IsQuit(user_input)
         /\ ~IsHelp(user_input)
         /\ RequiredEmpty(schema[idx], user_input)
    /\ Read(inp)
    /\ out' = Msg("This field is required. Enter a value or type 'help'.", <<>>)
    /\ validated' = FALSE
    /\ UNCHANGED <<schema, api_key, pc, idx, answers, dialog_ctx, emitted, explainCalls,
                   summarizeCalls, lastSvc, summarized, helpReads>>

ReadInvalidLogged(inp) ==
    /\ pc = "input"
    /\ LET user_input == strip(inp) IN
         /\ ~IsQuit(user_input)
         /\ ~IsHelp(user_input)
         /\ ~RequiredEmpty(schema[idx], user_input)
         /\ InvalidFormat(schema[idx], user_input)
         /\ Len(dialog_ctx) < Len(schema) + 2
         /\ dialog_ctx' = Append(dialog_ctx,
                [role |-> "user",
                 content |-> <<schema[idx].question, " -> ">> \o user_input])
    /\ Read(inp)
    /\ out' = Msg("Invalid format. Try again or type 'help'.", <<>>)
    /\ validated' = ValidatorInvoked(schema[idx], strip(inp))
    /\ UNCHANGED <<schema, api_key, pc, idx, answers, emitted, explainCalls,
                   summarizeCalls, lastSvc, summarized, helpReads>>

\* lines 166-169
ReadInvalid(inp) ==
    /\ pc = "input"
    /\ LET user_input == strip(inp) IN
         /\ ~IsQuit(user_input)
         /\ ~IsHelp(user_input)
         /\ ~RequiredEmpty(schema[idx], user_input)
         /\ InvalidFormat(schema[idx], user_input)
    /\ Read(inp)
    /\ out' = Msg("Invalid format. Try again or type 'help'.", <<>>)
    /\ validated' = ValidatorInvoked(schema[idx], strip(inp))
    /\ UNCHANGED <<schema, api_key, pc, idx, answers, dialog_ctx, emitted, explainCalls,
                   summarizeCalls, lastSvc, summarized, helpReads>>

\* lines 171-175, and lines 147 / 178-179 when the for loop moves on: the next
\* field is prompted, or after the last one summarize_answers is called
ReadAccept(inp) ==
    /\ pc = "input"
    /\ LET user_input == strip(inp)
           field == schema[idx] IN
         /\ ~IsQuit(user_input)
         /\ ~IsHelp(user_input)
         /\ ~RequiredEmpty(field, user_input)
         /\ ~InvalidFormat(field, user_input)
         /\ answers' = DictSet(answers, field.key, user_input)
         /\ dialog_ctx' = Append(dialog_ctx,
                [role |-> "user",
                 content |-> <<field.question, " -> ">> \o user_input])
    /\ Read(inp)
    /\ idx' = idx + 1
    /\ IF idx < Len(schema)
       THEN /\ pc' = "input"
            /\ UNCHANGED <<out, summarizeCalls, summarized>>
       ELSE /\ pc' = "summarize"
            /\ out' = Msg("Summary of your answers:", <<>>)
            /\ summarizeCalls' = summarizeCalls + 1
            /\ summarized' = Append(summarized, json_dumps(answers'))
    /\ validated' = ValidatorInvoked(schema[idx], strip(inp))
    /\ UNCHANGED <<schema, api_key, emitted, explainCalls, lastSvc, helpReads>>

\* line 179: summarize_answers returns and its text is printed
SummarizeReturn(resp) ==
    /\ pc = "summarize"
    /\ LET r == summarize_answers(answers, resp) IN
         IF r.raised
         THEN pc' = "crashed" /\ out' = Msg("Traceback", <<>>)
         ELSE pc' = "confirm" /\ out' = Msg("", r.value)
    /\ lastSvc' = IF resp.raises THEN "error" ELSE "ok"
    /\ UNCHANGED <<schema, api_key, idx, answers, dialog_ctx, line, emitted,
                   explainCalls, summarizeCalls, scen, summarized, validated,
                   helpReads>>

ReadConfirmReask(inp) ==
    /\ pc = "confirm"
    /\ Read(inp)
    /\ IF lower(strip(inp)) = yes
       THEN /\ pc' = "completed"
            /\ out' = Msg("Final JSON:", <<>>)
            /\ emitted' = Append(emitted, json_dumps(answers))
       ELSE /\ pc' = "confirm"
            /\ out' = Msg("Please answer yes or no.", <<>>)
            /\ UNCHANGED emitted
    /\ validated' = FALSE
    /\ UNCHANGED <<schema, api_key, idx, answers, dialog_ctx, explainCalls,
                   summarizeCalls, lastSvc, summarized, helpReads>>

ReadConfirmLoop(inp) ==
    /\ pc \in {"confirm", "completed", "cancelled"}
    /\ Len(emitted) < 2
    /\ Read(inp)
    /\ IF lower(strip(inp)) = yes
       THEN /\ pc' = "completed"
            /\ out' = Msg("Final JSON:", <<>>)
            /\ emitted' = Append(emitted, json_dumps(answers))
       ELSE /\ pc' = "cancelled"
            /\ out' = Msg("OK, cancelled. Nothing saved.", <<>>)
            /\ UNCHANGED emitted
    /\ validated' = FALSE
    /\ UNCHANGED <<schema, api_key, idx, answers, dialog_ctx, explainCalls,
                   summarizeCalls, lastSvc, summarized, helpReads>>

\* lines 181-186
ReadConfirm(inp) ==
    /\ pc = "confirm"
    /\ Read(inp)
    /\ LET confirm == lower(strip(inp)) IN
         IF IsYes(confirm)
         THEN /\ pc' = "completed"
              /\ out' = Msg("Final JSON:", <<>>)
              /\ emitted' = Append(emitted, json_dumps(answers))
         ELSE /\ pc' = "cancelled"
              /\ out' = Msg("OK, cancelled. Nothing saved.", <<>>)
              /\ UNCHANGED emitted
    /\ validated' = FALSE
    /\ UNCHANGED <<schema, api_key, idx, answers, dialog_ctx, explainCalls,
                   summarizeCalls, lastSvc, summarized, helpReads>>

Next ==
    \/ Startup
    \/ \E inp \in FieldInputs : ReadQuit(inp)
    \/ \E inp \in FieldInputs : ReadHelp(inp)
    \/ \E resp \in SvcResponses : ExplainReturn(resp)
    \/ \E inp \in FieldInputs : ReadEmptyRequired(inp)
    \/ \E inp \in FieldInputs : ReadInvalid(inp)
    \/ \E inp \in FieldInputs : ReadAccept(inp)
    \/ \E resp \in SvcResponses : SummarizeReturn(resp)
    \/ \E inp \in ConfirmInputs : ReadConfirm(inp)

Spec == Init /\ [][Next]_vars
SpecScenario == InitScenario /\ [][Next]_vars

\* The program runs, every Gateway call returns (lines 27-35 block until
\* then), and at a field the user eventually types an acceptable value or
\* "quit".
AcceptOrQuit == \E inp \in FieldInputs : ReadAccept(inp) \/ ReadQuit(inp)
GatewayReturns ==
    \E resp \in SvcResponses : ExplainReturn(resp) \/ SummarizeReturn(resp)
ConfirmTyped == \E inp \in ConfirmInputs : ReadConfirm(inp)
SpecLive ==
    /\ Init /\ [][Next]_vars
    /\ WF_vars(Startup)
    /\ WF_vars(GatewayReturns)
    /\ SF_vars(AcceptOrQuit)

\* The Controller's state in the words of the design.
State ==
    CASE pc = "start"                      -> "NotStarted"
      [] pc = "fatal"                      -> "Fatal"
      [] pc \in {"input", "explain"}       -> "Prompting"
      [] pc \in {"summarize", "confirm"}   -> "AwaitingConfirmation"
      [] pc = "completed"                  -> "Completed"
      [] pc = "cancelled"                  -> "Cancelled"
      [] OTHER                             -> "Aborted"

TypeOK ==
    /\ pc \in {"start", "fatal", "input", "explain", "summarize", "confirm",
               "completed", "cancelled", "crashed"}
    /\ api_key \in ApiKeys
    /\ validated \in BOOLEAN
    /\ helpReads \in 0..MaxExplain
    /\ Len(summarized) <= 1
    /\ idx \in 1..(Len(schema) + 1)
    /\ explainCalls \in 0..MaxExplain
    /\ line \in Inputs

\* ================================================================ claims
EmptyInputs == { <<>>, <<" ", "\t">> }
QuitInputs  == { quit, <<" ","Q","u","i","t"," ">> }
HelpInputs  == { help, <<" ","H","e","L","P"," ">> }
YesInputs   == { yes, <<" ","Y","E","S"," ">> }

Keys(d) == Range(d.keys)
Stays == pc' = "input" /\ idx' = idx /\ answers' = answers
         /\ dialog_ctx' = dialog_ctx
Advances ==
    /\ idx' = idx + 1
    /\ IF idx < Len(schema) THEN pc' = "input" ELSE pc' = "summarize"

\* C1: at a required field, an input that is empty after stripping never
\* advances the Controller: the field, the Answer Set and the conversation
\* log are unchanged and the same field is prompted again.
C1_RequiredEmptyStays ==
    [][ (pc = "input" /\ schema[idx].required /\ line' \in EmptyInputs)
        => Stays ]_vars

C1_Witness ==
    /\ pc = "input" /\ idx = 3 /\ line \in EmptyInputs
    /\ out.msg = "This field is required. Enter a value or type 'help'."
    /\ Keys(answers) = {"first_name", "last_name"}

\* C2 as stated: a non-empty input that is_valid rejects leaves the state
\* Prompting(field) and records nothing.
C2_Original ==
    [][ (pc = "input" /\ strip(line') # <<>>
         /\ ~is_valid(strip(line'), schema[idx].validate))
        => (pc' \in {"input", "explain"} /\ idx' = idx
            /\ answers' = answers) ]_vars

\* C2 amended: a non-empty input other than "quit" that is_valid rejects
\* leaves the state Prompting(field) and records nothing; "quit" cancels.
C2_InvalidStays ==
    [][ (pc = "input" /\ strip(line') # <<>>
         /\ ~is_valid(strip(line'), schema[idx].validate))
        => IF line' \in QuitInputs
           THEN pc' = "cancelled" /\ idx' = idx /\ answers' = answers
           ELSE pc' \in {"input", "explain"} /\ idx' = idx
                /\ answers' = answers /\ dialog_ctx' = dialog_ctx ]_vars

C2_Witness ==
    /\ pc = "input" /\ idx = 2 /\ line = <<"y">>
    /\ out.msg = "Invalid format. Try again or type 'help'."
    /\ Keys(answers) = {"first_name"}

\* C3 as stated: a value that the field's rule accepts is recorded under the
\* field's key and the Controller moves to the next field or to confirmation.
C3_Original ==
    [][ (pc = "input" /\ re_match(schema[idx].validate, strip(line')))
        => (/\ Advances
            /\ schema[idx].key \in Keys(answers')
            /\ answers'.vals[schema[idx].key] = strip(line')) ]_vars

\* C3 amended: a value other than "help" and "quit" (in any letter case) that
\* the field's rule accepts is recorded under the field's key and the
\* Controller moves to the next field, or to confirmation after the last.
C3_ValidAdvances ==
    [][ (pc = "input" /\ re_match(schema[idx].validate, strip(line'))
         /\ line' \notin QuitInputs \cup HelpInputs)
        => (/\ Advances
            /\ schema[idx].key \in Keys(answers')
            /\ answers'.vals[schema[idx].key] = strip(line')) ]_vars

C3_Witness ==
    /\ pc = "summarize" /\ idx = Len(schema) + 1
    /\ line = <<" ","1","2">>
    /\ answers.vals["investment_experience_years"] = <<"1","2">>

\* C4: "help" in any letter case at a field leaves the Answer Set, the field
\* and the conversation log unchanged; its only effect is one explain call
\* and the display of its text, after which the same field is prompted.
C4_HelpFrame ==
    [][ /\ (pc = "input" /\ line' \in HelpInputs)
            => (/\ pc' = "explain" /\ explainCalls' = explainCalls + 1
                /\ UNCHANGED <<idx, answers, dialog_ctx, emitted,
                               summarizeCalls>>)
        /\ (pc = "explain")
            => (/\ pc' = "input"
                /\ UNCHANGED <<idx, answers, dialog_ctx, emitted,
                               explainCalls, summarizeCalls>>) ]_vars

C4_Witness ==
    /\ pc = "input" /\ idx = 4 /\ explainCalls = 2
    /\ line \in HelpInputs /\ out.msg = ""
    /\ Len(answers.keys) = 3 /\ Len(dialog_ctx) = 4

\* C5: "quit" in any letter case at any field, after any number of accepted
\* answers, ends the session Cancelled: nothing is emitted, and neither
\* summarize nor the confirmation prompt is reached.
C5_QuitCancels ==
    [][ /\ (pc = "input" /\ line' \in QuitInputs)
            => (pc' = "cancelled" /\ emitted' = <<>>
                /\ summarizeCalls' = 0 /\ idx' <= Len(schema))
        /\ pc # "cancelled" ]_vars

C5_Witness ==
    /\ pc = "cancelled" /\ line \in QuitInputs /\ idx = 5
    /\ Len(answers.keys) = 4 /\ emitted = <<>> /\ summarizeCalls = 0

\* C6: at the confirmation prompt the session completes and emits the Answer
\* Set iff the input is "yes" in any letter case; every other input cancels
\* and nothing is emitted.
C6_ConfirmIffYes ==
    [][ (pc = "confirm")
        => IF line' \in YesInputs
           THEN pc' = "completed" /\ Len(emitted') = 1
                /\ Len(emitted'[1]) = Len(answers.keys)
           ELSE pc' = "cancelled" /\ emitted' = <<>> ]_vars

C6_Witness ==
    /\ pc = "cancelled" /\ idx = Len(schema) + 1 /\ summarizeCalls = 1
    /\ line = <<"y">> /\ emitted = <<>>
    /\ Len(answers.keys) = Len(schema)

KeyIndex(k) == CHOOSE i \in 1..Len(schema) : schema[i].key = k
Required(k) == schema[KeyIndex(k)].required

InSchemaOrder(rec) ==
    \A i, j \in 1..Len(rec) :
        i < j => KeyIndex(rec[i][1]) < KeyIndex(rec[j][1])

\* C8: on completion exactly one record is emitted; it has the keys of the
\* Answer Set, each once and with the Answer Set's value, in schema order.
C8_RecordIsAnswerSet ==
    pc = "completed" =>
        /\ Len(emitted) = 1
        /\ Len(emitted[1]) = Cardinality(Keys(answers))
        /\ {emitted[1][i][1] : i \in 1..Len(emitted[1])} = Keys(answers)
        /\ \A i \in 1..Len(emitted[1]) :
              emitted[1][i][2] = answers.vals[emitted[1][i][1]]
        /\ InSchemaOrder(emitted[1])

C8_Witness ==
    /\ pc = "completed"
    /\ Len(emitted) = 1 /\ Len(emitted[1]) = Len(schema)
    /\ emitted[1][1] = <<"first_name", <<"y">> >>
    /\ emitted[1][Len(schema)] = <<"investment_experience_years", <<>> >>

\* C9: with the schema [first_name, last_name], the inputs "O'Brien",
\* "Brien", "help", "Lee", "yes" are handled as: rejected at first_name,
\* accepted, explained with last_name prompted again, accepted, confirmed;
\* the session ends Completed with {first_name: "Brien", last_name: "Lee"}.
C9_Scenario ==
    LET Brien == <<"B","r","i","e","n">>
        Lee   == <<"L","e","e">> IN
    /\ scen = 1 => /\ pc = "input" /\ idx = 1 /\ answers = EmptyDict
                   /\ out.msg = "Invalid format. Try again or type 'help'."
    /\ scen = 2 => /\ pc = "input" /\ idx = 2
                   /\ json_dumps(answers) = << <<"first_name", Brien>> >>
    /\ scen = 3 => /\ pc \in {"explain", "input"} /\ idx = 2
                   /\ explainCalls = 1
                   /\ pc = "input" => out.msg = ""
                   /\ json_dumps(answers) = << <<"first_name", Brien>> >>
    /\ scen = 4 => /\ pc \in {"summarize", "confirm"}
                   /\ json_dumps(answers) =
                         << <<"first_name", Brien>>, <<"last_name", Lee>> >>
    /\ scen = 5 => /\ pc = "completed"
                   /\ emitted = << << <<"first_name", Brien>>,
                                      <<"last_name", Lee>> >> >>

C9_Witness ==
    /\ scen = 5 /\ pc = "completed" /\ Len(schema) = 2 /\ Len(emitted) = 1

\* C10: a failing generation service never aborts or alters the session:
\* each explain and summarize call returns a string (the text or the error
\* placeholder) and leaves the field, the Answer Set and the log as they
\* were, and after a failed summarize "yes" still completes and emits.
C10_GatewayFailureHarmless ==
    [][ /\ (pc \in {"explain", "summarize"})
            => (/\ pc' = (IF pc = "explain" THEN "input" ELSE "confirm")
                /\ UNCHANGED <<idx, answers, dialog_ctx, emitted>>
                /\ out'.msg = ""
                /\ lastSvc' = "error" => out'.text = LLMError)
        /\ (pc = "confirm" /\ lastSvc = "error" /\ line' \in YesInputs)
            => (pc' = "completed" /\ emitted' = <<json_dumps(answers)>>)
        /\ pc' # "crashed" ]_vars

C10_Witness ==
    /\ pc = "completed" /\ lastSvc = "error" /\ explainCalls > 0
    /\ Len(emitted) = 1 /\ Len(emitted[1]) = Len(schema)

NoKeyValues == { [none |-> TRUE,  value |-> <<>>],
                 [none |-> FALSE, value |-> <<>>] }

\* C11: without an API key the program fails at startup: its only step ends
\* in the fatal error, no field is prompted, no line is read, no Gateway
\* call is made and nothing is emitted.
C11_NoKeyFatal ==
    [][ (api_key \in NoKeyValues)
        => (/\ pc = "start" /\ pc' = "fatal"
            /\ line' = <<>> /\ idx' = 1 /\ answers' = EmptyDict
            /\ explainCalls' = 0 /\ summarizeCalls' = 0 /\ helpReads' = 0
            /\ emitted' = <<>> /\ summarized' = <<>>
            /\ Len(dialog_ctx') = 1) ]_vars

C11_Witness ==
    /\ pc = "fatal" /\ api_key = [none |-> FALSE, value |-> <<>>]
    /\ out.msg = "RuntimeError: OPENAI_API_KEY is not set."
    /\ emitted = <<>> /\ line = <<>>

\* The keys of the fields before field i, in schema order.
KeysBefore(i) == [j \in 1..(i - 1) |-> schema[j].key]

C12_Ordered ==
    /\ idx \in 1..(Len(schema) + 1)
    /\ answers.keys = KeysBefore(idx)
    /\ State = "Prompting" => idx <= Len(schema)
    /\ State \in {"AwaitingConfirmation", "Completed"} =>
          /\ idx = Len(schema) + 1
          /\ \A i \in 1..Len(schema) :
                schema[i].required =>
                   /\ schema[i].key \in Keys(answers)
                   /\ answers.vals[schema[i].key] # <<>>
                   /\ re_match(schema[i].validate, answers.vals[schema[i].key])

\* C12: fields are collected in schema order without skipping or going back:
\* the field index never decreases and grows by one exactly when an input is
\* accepted, the Answer Set holds the keys of the fields passed, and at
\* confirmation every required key has a non-empty value its rule accepts.
C12_SchemaOrder ==
    [][ /\ idx' \in {idx, idx + 1}
        /\ idx' = idx + 1 <=> (pc = "input" /\ answers' # answers)
        /\ C12_Ordered' ]_vars

C12_Witness ==
    /\ pc = "confirm" /\ idx = Len(schema) + 1
    /\ answers.keys = KeysBefore(Len(schema) + 1)
    /\ answers.vals["passport_number"] = <<"A","B","1","2","3","4","5">>
    /\ answers.vals["first_name"] = <<"y">>

\* C13: the Answer Set only grows: a step keeps every key and its value,
\* from the confirmation phase on it does not change at all, and the data
\* given to summarize is the data emitted on completion.
C13_AnswersMonotone ==
    [][ /\ \A k \in Keys(answers) :
              k \in Keys(answers') /\ answers'.vals[k] = answers.vals[k]
        /\ State \in {"AwaitingConfirmation", "Completed", "Cancelled"}
              => answers' = answers
        /\ pc' = "completed" => (summarized' = emitted' /\ Len(emitted') = 1) ]_vars

C13_Witness ==
    /\ pc = "completed" /\ Len(answers.keys) = Len(schema)
    /\ summarized = emitted /\ Len(summarized) = 1
    /\ Len(summarized[1]) = Len(schema)

\* C14: an empty input is decided by the required flag alone and never
\* reaches the Validator: a required field rejects it and stays, an optional
\* field accepts it and the Controller advances, whatever the field's rule.
C14_EmptyByRequiredFlag ==
    [][ (pc = "input" /\ line' \in EmptyInputs)
        => (/\ validated' = FALSE
            /\ IF schema[idx].required THEN Stays ELSE Advances) ]_vars

C14_Witness ==
    /\ pc = "summarize" /\ line = <<" ", "\t">> /\ validated = FALSE
    /\ ~schema[Len(schema)].required
    /\ ~re_match(schema[Len(schema)].validate, <<>>)
    /\ Len(dialog_ctx) = Len(schema) + 1

\* C15: Completed and Cancelled are terminal: no step leaves them, so no
\* line is read, no Gateway call is made and no field is prompted after
\* them; a Cancelled session has emitted nothing and a Completed one exactly
\* one record.
C15_Terminal ==
    [][ /\ State \notin {"Completed", "Cancelled"}
        /\ State' = "Cancelled" => emitted' = <<>>
        /\ State' = "Completed" => Len(emitted') = 1 ]_vars

C15_Witness ==
    /\ State = "Completed" /\ line = <<" ","Y","E","S"," ">>
    /\ Len(emitted) = 1 /\ explainCalls = MaxExplain

\* C16: no retries. The explain calls are as many as the "help" lines read;
\* summarize is called once, on entering the confirmation phase and before
\* the confirmation line is read, and not at all in a session that quits; a
\* validation error or a returning (failed) Gateway call makes no call.
C16_NoRetries ==
    [][ /\ explainCalls' = helpReads'
        /\ explainCalls' \in {explainCalls, explainCalls + 1}
        /\ summarizeCalls' = IF idx' = Len(schema) + 1 THEN 1 ELSE 0
        /\ (pc' = "cancelled" /\ line' \in QuitInputs /\ pc = "input")
              => summarizeCalls' = 0
        /\ (pc = "input" /\ pc' = "input" /\ idx' = idx)
              => UNCHANGED <<explainCalls, summarizeCalls>>
        /\ (pc \in {"explain", "summarize"})
              => (/\ UNCHANGED <<explainCalls, summarizeCalls>>
                  /\ pc' \notin {"explain", "summarize"}) ]_vars

C16_Witness ==
    /\ pc = "confirm" /\ lastSvc = "error" /\ out.text = LLMError
    /\ explainCalls = 2 /\ helpReads = 2 /\ summarizeCalls = 1

KeywordValues == { quit, <<"Q","u","i","t">>, help, <<"H","e","L","P">> }

\* C17: "help" and "quit" in any letter case are never validated or
\* recorded, also at a field whose rule accepts them: no value of the Answer
\* Set or of the emitted record is one of them.
C17_KeywordsReserved ==
    [][ /\ (pc = "input" /\ line' \in QuitInputs \cup HelpInputs)
            => (validated' = FALSE /\ answers' = answers /\ idx' = idx)
        /\ \A k \in Keys(answers') : answers'.vals[k] \notin KeywordValues
        /\ \A r \in Range(emitted') : \A i \in 1..Len(r) :
              r[i][2] \notin KeywordValues ]_vars

C17_Witness ==
    /\ pc = "explain" /\ idx = 5 /\ line = <<" ","H","e","L","P"," ">>
    /\ re_match(schema[5].validate, <<"H","e","L","P">>)
    /\ validated = FALSE /\ Len(answers.keys) = 4

\* C19: a record is emitted only at the end of the protocol: the emitting
\* step reads "yes" at the confirmation prompt, after every field was
\* accepted and after the one summarize call, made over the final Answer
\* Set; no other step emits.
C19_EmitOnlyAtEnd ==
    [][ /\ (emitted' # emitted)
            => (/\ pc = "confirm" /\ pc' = "completed"
                /\ line' \in YesInputs
                /\ emitted = <<>> /\ Len(emitted') = 1
                /\ answers.keys = KeysBefore(Len(schema) + 1)
                /\ summarizeCalls = 1
                /\ summarized = emitted')
        /\ pc' = "summarize" => answers'.keys = KeysBefore(Len(schema) + 1)
        /\ pc' = "confirm" => (pc = "summarize" /\ summarizeCalls' = 1
                               /\ Len(summarized') = 1)
        /\ pc' # "completed" => emitted' = <<>> ]_vars

C19_Witness ==
    /\ pc = "completed" /\ line = yes /\ explainCalls = 0
    /\ lastSvc = "ok" /\ Len(emitted) = 1 /\ summarized = emitted

\* C20: the conversation log gets one prompt -> answer record per advance of
\* the Controller, also for an accepted empty optional input, and none for
\* help, quit or a validation error: after the system record it holds as
\* many records as fields were passed.
C20_LogPerAdvance ==
    [][ /\ Len(dialog_ctx') = idx'
        /\ IF idx' = idx + 1
           THEN dialog_ctx' = Append(dialog_ctx,
                   [role |-> "user",
                    content |-> <<schema[idx].question, " -> ">>
                                \o answers'.vals[schema[idx].key]])
           ELSE dialog_ctx' = dialog_ctx ]_vars

C20_Witness ==
    /\ pc = "confirm" /\ Len(dialog_ctx) = Len(schema) + 1
    /\ dialog_ctx[Len(schema) + 1].content
          = <<schema[Len(schema)].question, " -> ">>
    /\ explainCalls = 1 /\ line \in EmptyInputs

Done == State \in {"Completed", "Cancelled"}

\* A rejected line that leaves the Controller where it is.
RejectedAgain ==
    /\ \E inp \in FieldInputs : ReadInvalid(inp) \/ ReadEmptyRequired(inp)
    /\ Stays

\* C18 as stated: if every Gateway call returns and at each field the user
\* eventually types an acceptable value or "quit", every session eventually
\* reaches Completed or Cancelled.
C18_Original ==
    (api_key \notin NoKeyValues) => <>Done

\* C18 amended: under the same assumptions and if the user also answers the
\* confirmation prompt, every session eventually reaches Completed or
\* Cancelled; and at every field prompt a rejected line that leaves the
\* Controller in the same Prompting(field) state can be typed again, so the
\* number of attempts is not bounded.
C18_Liveness ==
    /\ (WF_vars(ConfirmTyped) /\ api_key \notin NoKeyValues) => <>Done
    /\ [](pc = "input" => ENABLED RejectedAgain)

C18_Witness ==
    /\ pc = "input" /\ idx = 6 /\ explainCalls = MaxExplain
    /\ out.msg = "Invalid format. Try again or type 'help'."
    /\ line = <<"y">> /\ validated

====
